---- MODULE Spec2Model ----
(***************************************************************************)
(* Model of the GoFile uploader bot's transfer layer:                      *)
(*   - AccountPool (app/account_pool.py): round-robin credential pool      *)
(*     with a best-effort quota probe, guarded by one asyncio.Lock;        *)
(*   - GofileClient.is_quota_exhausted (app/gofile_api.py);                *)
(*   - the transfer units of app/handlers.py, admitted by the              *)
(*     asyncio.Semaphore that app/bot.py creates.                          *)
(* asyncio is cooperative: a task runs without interruption between two    *)
(* awaits, so every action below is the code between two suspension        *)
(* points of one task.                                                     *)
(***************************************************************************)
EXTENDS Integers, Sequences, FiniteSets, TLC

\* ------------------------------------------------------------------ bounds
\* Largest number of configured GoFile tokens (len(GOFILE_TOKENS) >= 1).
MaxTokens == 2
\* Number of tasks (callers of the pool / transfer units) that may exist.
MaxUnits == 2
\* Number of pick() calls the pool's callers issue in SpecPool.
MaxPicks == 3
\* Largest configured MAX_CONCURRENT_TRANSFERS (>= 1).
MaxCapacity == 2
\* Number of distinct file names the sources resolve to.
MaxNames == 1
\* Largest length of a source's body, in chunks.
MaxSize == 5
\* Largest length of a file name given to sanitize_filename.
MaxStr == 5
\* Number of tasks that call edit() on one status object.
MaxTasks == 2
\* Largest number of edit() calls on one status object.
MaxEdits == 4
\* How long the clock of the status object runs, in intervals.
MaxTime == 3

\* ------------------------------------------------------- program constants
\* is_quota_exhausted(threshold=0.995), in thousandths.
THRESHOLD == 995

Units == 1..MaxUnits
NoUnit == 0
NoIdx == -1

VARIABLES
    ntokens,      \* len(self.tokens): fixed at construction
    _idx,         \* AccountPool._idx, the rotation cursor
    _lock,        \* AccountPool._lock: the task holding it, or NoUnit
    _exhausted,   \* AccountPool._exhausted
    pc,           \* position of every task
    tried,        \* pick(): local `tried` of the call in progress
    probed,       \* pick(): <<idx, status>> of every probe of the call
    ret,          \* pick(): the index returned to the caller
    arg,          \* mark_exhausted(): its argument
    npicked,      \* history: number of pick() calls that have returned
    ncalls,       \* history: number of pick() calls issued
    sawExhausted, \* history: some probe has reported exhausted
    miss,         \* history: per index, returned picks since it was last
                  \*          flagged or returned
    capacity,     \* MAX_CONCURRENT_TRANSFERS, the semaphore's initial value
    permits,      \* free permits of bot_data["sem"]
    kind,         \* what a task is: "http", "tg" or "stats" ("none": not yet)
    since,        \* time since _ThrottleEdit._last, capped at INTERVAL, as of
                  \* the unit's last edit
    finals,       \* number of final status texts that reached the message
    path,         \* the handler's local `path`
    dest,         \* the destination file the unit created
    fs,           \* DOWNLOAD_DIR: the state of every file name
    iter,         \* iterations of the upload loop already finished
    guest,        \* upload_file is in its guest retry
    sent,         \* upload_file: the requests the call in progress has sent
    used,         \* the credential indices the unit's upload loop has been through
    result,       \* the normalized upload result being handled
    outcome,      \* how the unit ended ("none" while in flight)
    dpc,          \* smart_download: position of the call ("idle": no call)
    source,       \* smart_download: length of the body the URL serves
    total_size,   \* smart_download: probed size, -1 if unknown
    ranged,       \* smart_download: probed range support
    out_exists,   \* smart_download: os.path.exists(out_path)
    out_bytes,    \* smart_download: the bytes of the file at out_path
    attempt,      \* smart_download: local `attempt`
    downloaded,   \* smart_download: local `downloaded`
    pos,          \* smart_download: offset of the next byte the response yields
    fresh,        \* history: out_path did not exist when the call began
    reqs,         \* history: the first two GET requests of the call, with
                  \*          what each wrote
    nreqs,        \* history: number of GET requests of the call
    nsleeps,      \* history: number of backoff sleeps of the call
    san_pc,       \* sanitize_filename: how often it has been applied
    san_in,       \* sanitize_filename: the name given
    san_out,      \* sanitize_filename: the result of the last application
    hd_pc,        \* http_download: where the call is
    hd_source,    \* http_download: the length of the source's body, in chunks
    hd_total_size, \* http_download: total_size (NoSize for None)
    hd_tmp,       \* http_download: the bytes of the file at tmp_path
    bytes_done,   \* http_download: bytes_done
    hd_attempt,   \* http_download: attempt
    hd_pos,       \* http_download: how far into the source the response is
    hd_status,    \* http_download: resp.status of the latest response
    hd_from,      \* http_download: the Range offset of the latest request
    hd_clen,      \* http_download: the latest response has a Content-Length
    up_pc,        \* _upload_once: where the call is
    file_size,    \* _upload_once: file_size, in chunks
    up_len,       \* _upload_once: the chunks _iter_file finds in the file
    up_sent,      \* _upload_once: last["sent"]
    up_pct,       \* _upload_once: the percentage last shown by on_chunk, in tenths
    up_hundred,   \* _upload_once: the "100%" text has been emitted
    th_now,       \* _ThrottleEdit: time.time(), in intervals
    th_last,      \* _ThrottleEdit: self._last
    th_pc,        \* _ThrottleEdit: each task's position in edit()
    th_accepted,  \* history: the times at which an edit was passed on
    th_sends,     \* history: the number of msg.edit_text calls
    th_calls      \* history: the number of edit() calls

poolVars == <<ntokens, _idx, _lock, _exhausted>>
callVars == <<pc, tried, probed, ret, arg>>
histVars == <<npicked, ncalls, sawExhausted, miss>>
orchVars == <<capacity, permits, kind, since, finals, path, dest, fs,
              iter, guest, sent, used, result, outcome>>
dlVars == <<dpc, source, total_size, ranged, out_exists, out_bytes, attempt,
            downloaded, pos, fresh, reqs, nreqs, nsleeps>>
sanVars == <<san_pc, san_in, san_out>>
hdVars == <<hd_pc, hd_source, hd_total_size, hd_tmp, bytes_done, hd_attempt,
            hd_pos, hd_status, hd_from, hd_clen>>
upVars == <<up_pc, file_size, up_len, up_sent, up_pct, up_hundred>>
thVars == <<th_now, th_last, th_pc, th_accepted, th_sends, th_calls>>
vars == <<poolVars, callVars, histVars, orchVars, dlVars, sanVars, hdVars, upVars, thVars>>

Indices == 0..(ntokens - 1)

\* ------------------------------------------------- GofileClient (probe)
\* What the remote answers to the account-info request of one probe:
\* a network error, a non-200 answer, a body without usage fields, or
\* usage numbers (used, limit).
ProbeResponses ==
    {[kind |-> k, used |-> 0, limit |-> 0] : k \in {"neterr", "non200", "nousage"}}
    \cup {[kind |-> "usage", used |-> a, limit |-> b] :
              a \in {0, 994, 995, 1000}, b \in {0, 1000}}

\* _extract_usage: `a or b or c` treats 0 like a missing key, so a used or
\* limit of 0 yields (None, None).
ExtractUsage(resp) ==
    IF resp.kind = "usage" /\ resp.used # 0 /\ resp.limit # 0
    THEN <<resp.used, resp.limit>>
    ELSE <<NoIdx, NoIdx>>

\* get_account_info: {} for a non-200 answer; a network error propagates.
\* is_quota_exhausted: None | False | True, or the exception ("raise").
IsQuotaExhausted(resp) ==
    IF resp.kind = "neterr" THEN "raise"
    ELSE IF resp.kind = "non200" THEN "None"
    ELSE LET u == ExtractUsage(resp) IN
         IF u[1] = NoIdx \/ u[2] = NoIdx \/ u[2] = 0 THEN "None"
         ELSE IF u[1] * 1000 >= THRESHOLD * u[2] THEN "True" ELSE "False"

\* ----------------------------------------------------------- AccountPool
\* AccountPool.__init__
PoolInit ==
    /\ ntokens \in 1..MaxTokens
    /\ _idx = 0
    /\ _lock = NoUnit
    /\ _exhausted = {}

\* Mutant of LockFree: the lock is never waited for.
LockFreeAlways == TRUE

\* The lock of `async with self._lock` is free.
LockFree == _lock = NoUnit

\* pick(), from `async with self._lock` to the first probe's await.
PickEnter(u) ==
    /\ pc[u] = "pick_lock"
    /\ LockFree
    /\ _lock' = u
    /\ tried' = [tried EXCEPT ![u] = 0]
    /\ probed' = [probed EXCEPT ![u] = <<>>]
    /\ pc' = [pc EXCEPT ![u] = "pick_probe"]
    /\ UNCHANGED <<ntokens, _idx, _exhausted, ret, arg>>

\* Mutant of Advance: the cursor stays on the candidate.
AdvanceStuck(idx) == idx % ntokens

\* The cursor after candidate idx was accepted or skipped (lines 28, 33).
Advance(idx) == (idx + 1) % ntokens

\* Mutant of Acceptable: a flagged credential is skipped for good.
AcceptableUnlessFlagged(idx, status) ==
    status \in {"False", "None"} /\ idx \notin _exhausted

\* Line 25: `status is False or status is None`; the exhaustion set is not
\* consulted.
Acceptable(idx, status) == status \in {"False", "None"}

\* Mutant of PickAccept: line 28 is missing.
PickAcceptNoAdvance(u, idx) ==
    /\ ret' = [ret EXCEPT ![u] = idx]
    /\ pc' = [pc EXCEPT ![u] = "picked"]
    /\ _lock' = NoUnit
    /\ UNCHANGED <<_idx, _exhausted, tried>>

\* Lines 27-29: accept the candidate, move the cursor past it, return.
PickAccept(u, idx) ==
    /\ _idx' = Advance(idx)
    /\ ret' = [ret EXCEPT ![u] = idx]
    /\ pc' = [pc EXCEPT ![u] = "picked"]
    /\ _lock' = NoUnit
    /\ UNCHANGED <<_exhausted, tried>>

\* Mutant of PickFallback: a full rotation of exhausted probes is an error.
PickFallbackRaises(u, cursor) ==
    /\ pc' = [pc EXCEPT ![u] = "pick_raised"]
    /\ _lock' = NoUnit
    /\ UNCHANGED ret

\* Lines 36-37: every candidate looked exhausted; the index the cursor
\* (already moved to `cursor`) points at is returned and the cursor stays.
PickFallback(u, cursor) ==
    /\ ret' = [ret EXCEPT ![u] = cursor % ntokens]
    /\ pc' = [pc EXCEPT ![u] = "picked"]
    /\ _lock' = NoUnit

\* Mutant of LoopTest: the loop goes round once more.
LoopTestOneMore(t) == t <= ntokens

\* Line 18: `while tried < n`.
LoopTest(t) == t < ntokens

\* Mutant of PickSkip: line 32 is missing.
PickSkipNoFlag(u, idx) ==
    /\ _idx' = (idx + 1) % ntokens
    /\ tried' = [tried EXCEPT ![u] = @ + 1]
    /\ UNCHANGED _exhausted
    /\ IF tried[u] + 1 < ntokens
       THEN UNCHANGED <<pc, _lock, ret>>
       ELSE PickFallback(u, (idx + 1) % ntokens)

\* Lines 32-34 and the loop test of line 18: flag the candidate, move the
\* cursor past it, count it, and probe the next one unless all were tried.
PickSkip(u, idx) ==
    /\ _exhausted' = _exhausted \cup {idx}
    /\ _idx' = Advance(idx)
    /\ tried' = [tried EXCEPT ![u] = @ + 1]
    /\ IF LoopTest(tried[u] + 1)
       THEN UNCHANGED <<pc, _lock, ret>>
       ELSE PickFallback(u, Advance(idx))

\* Mutant of PickRaise: the lock stays with the call that raised.
PickRaiseKeepsLock(u) ==
    /\ pc' = [pc EXCEPT ![u] = "pick_raised"]
    /\ UNCHANGED <<_lock, _idx, _exhausted, tried, ret>>

\* The probe raised: the exception leaves `async with client` and
\* `async with self._lock` (which releases the lock) and reaches the caller.
PickRaise(u) ==
    /\ pc' = [pc EXCEPT ![u] = "pick_raised"]
    /\ _lock' = NoUnit
    /\ UNCHANGED <<_idx, _exhausted, tried, ret>>

\* Mutant of PickProbe: a candidate in the exhaustion set is passed over
\* whatever its probe says.
PickProbeTrustsFlag(u, resp) ==
    /\ pc[u] = "pick_probe"
    /\ LET idx == _idx % ntokens
           status == IsQuotaExhausted(resp)
       IN  /\ probed' = [probed EXCEPT ![u] = Append(@, <<idx, status>>)]
           /\ IF status = "raise" THEN PickRaise(u)
              ELSE IF Acceptable(idx, status) /\ idx \notin _exhausted
                   THEN PickAccept(u, idx)
              ELSE PickSkip(u, idx)
    /\ UNCHANGED <<ntokens, arg>>

\* pick(): one probe has answered (lines 19-34).
PickProbe(u, resp) ==
    /\ pc[u] = "pick_probe"
    /\ LET idx == _idx % ntokens
           status == IsQuotaExhausted(resp)
       IN  /\ probed' = [probed EXCEPT ![u] = Append(@, <<idx, status>>)]
           /\ IF status = "raise" THEN PickRaise(u)
              ELSE IF Acceptable(idx, status) THEN PickAccept(u, idx)
              ELSE PickSkip(u, idx)
    /\ UNCHANGED <<ntokens, arg>>

\* Mutant of MarkExhausted: the set is replaced by the one index.
MarkExhaustedReplaces(u) ==
    /\ pc[u] = "mark_lock"
    /\ LockFree
    /\ _exhausted' = {arg[u]}
    /\ arg' = [arg EXCEPT ![u] = NoIdx]
    /\ pc' = [pc EXCEPT ![u] = "marked"]
    /\ UNCHANGED <<ntokens, _idx, _lock, tried, probed, ret>>

\* mark_exhausted(idx): acquire, add, release, with no await in between.
MarkExhausted(u) ==
    /\ pc[u] = "mark_lock"
    /\ LockFree
    /\ _exhausted' = _exhausted \cup {arg[u]}
    /\ arg' = [arg EXCEPT ![u] = NoIdx]
    /\ pc' = [pc EXCEPT ![u] = "marked"]
    /\ UNCHANGED <<ntokens, _idx, _lock, tried, probed, ret>>

\* exhausted_indices(): sorted(self._exhausted)
RECURSIVE SortedSeq(_)
SortedSeq(S) ==
    IF S = {} THEN <<>>
    ELSE LET m == CHOOSE x \in S : \A y \in S : x <= y
         IN  <<m>> \o SortedSeq(S \ {m})

exhausted_indices == SortedSeq(_exhausted)

\* ------------------------------------------------ callers of the pool
\* A task calls pool.pick().
CallPick(u) ==
    /\ pc[u] = "idle"
    /\ ncalls < MaxPicks
    /\ ncalls' = ncalls + 1
    /\ pc' = [pc EXCEPT ![u] = "pick_lock"]
    /\ UNCHANGED <<poolVars, tried, probed, ret, arg>>
    /\ UNCHANGED <<npicked, sawExhausted, miss, orchVars>>

\* A task calls pool.mark_exhausted(idx) with the index its pick() returned,
\* as the upload loops do (handlers.py lines 229 and 254).
CallMark(u) ==
    /\ pc[u] = "picked"
    /\ arg' = [arg EXCEPT ![u] = ret[u]]
    /\ ret' = [ret EXCEPT ![u] = NoIdx]
    /\ tried' = [tried EXCEPT ![u] = 0]
    /\ probed' = [probed EXCEPT ![u] = <<>>]
    /\ pc' = [pc EXCEPT ![u] = "mark_lock"]
    /\ UNCHANGED <<poolVars, histVars, orchVars>>

\* The call has returned (or raised) and the task goes on.
Return(u) ==
    /\ pc[u] \in {"picked", "pick_raised", "marked"}
    /\ pc' = [pc EXCEPT ![u] = "idle"]
    /\ tried' = [tried EXCEPT ![u] = 0]
    /\ probed' = [probed EXCEPT ![u] = <<>>]
    /\ ret' = [ret EXCEPT ![u] = NoIdx]
    /\ UNCHANGED <<poolVars, arg, histVars, orchVars>>

\* The indices whose probe reported exhausted in a probe log.
ProbedExhausted(log) == {log[k][1] : k \in {j \in 1..Len(log) : log[j][2] = "True"}}

\* History of the pool's calls, recorded as a step of pick() or
\* mark_exhausted() happens (reads the step's old and new state).
Observe(u) ==
    LET returned == pc[u] = "pick_probe" /\ pc'[u] = "picked"
        marked == pc[u] = "mark_lock" /\ pc'[u] = "marked"
        flagged == (_exhausted' \ _exhausted)
                   \cup (IF marked THEN {arg[u]} ELSE {})
                   \cup (IF pc[u] = "pick_probe"
                         THEN ProbedExhausted(probed'[u]) \ ProbedExhausted(probed[u])
                         ELSE {})
    IN  /\ npicked' = IF returned THEN npicked + 1 ELSE npicked
        /\ sawExhausted' = (sawExhausted \/ (pc[u] = "pick_probe"
                                /\ ProbedExhausted(probed'[u]) # {}))
        /\ miss' = [i \in 0..(MaxTokens - 1) |->
                      IF i \notin Indices THEN 0
                      ELSE IF i \in flagged THEN 0
                      ELSE IF returned
                           THEN IF ret'[u] = i \/ i \in ProbedExhausted(probed'[u])
                                THEN 0 ELSE miss[i] + 1
                           ELSE miss[i]]
        /\ UNCHANGED ncalls

CallInit ==
    /\ pc = [u \in Units |-> "idle"]
    /\ tried = [u \in Units |-> 0]
    /\ probed = [u \in Units |-> <<>>]
    /\ ret = [u \in Units |-> NoIdx]
    /\ arg = [u \in Units |-> NoIdx]

HistInit ==
    /\ npicked = 0
    /\ ncalls = 0
    /\ sawExhausted = FALSE
    /\ miss = [i \in 0..(MaxTokens - 1) |-> 0]

\* ------------------------------------------------------- transfer units
\* _ThrottleEdit(status_msg, interval=1.0), in the clock's unit.
INTERVAL == 1

Paths == 1..MaxNames
NoPath == 0

\* The time a step's awaits may have taken.
Delays == 0..INTERVAL

\* The texts that end a unit: success, a stage-labelled error, all-exhausted,
\* no-file-found.
FinalTexts == {"success", "error_download", "error_upload", "all_exhausted",
               "no_file"}

NoResult == [error |-> FALSE, http |-> 0, link |-> FALSE]

\* What the remote answers to the upload request: HTTP status, the body's
\* "status" field, and whether the body holds a link or a code.
UploadResponses ==
    [http : {200, 401, 403, 500}, status : {"ok", "error"}, link : BOOLEAN]

\* GofileClient._normalize_response: error is set for a status other than
\* 200 or a body status other than ok/success; the link is kept either way.
NormalizeResponse(resp) ==
    [error |-> (resp.http # 200 \/ resp.status # "ok"),
     http |-> resp.http,
     link |-> resp.link]

\* time.time() - self._last, dt after the unit's last edit.
Elapsed(u, dt) == IF since[u] + dt >= INTERVAL THEN INTERVAL ELSE since[u] + dt

\* _ThrottleEdit.edit, line 41: the text is passed on only if at least
\* `interval` has passed since the last text that was passed on.
EditAccepted(u, dt) == Elapsed(u, dt) >= INTERVAL

\* _ThrottleEdit.edit(text), dt after the unit's last edit.
StatusEdit(u, dt, text) ==
    /\ since' = [since EXCEPT ![u] = IF EditAccepted(u, dt) THEN 0 ELSE Elapsed(u, dt)]
    /\ finals' = [finals EXCEPT ![u] =
                     @ + (IF EditAccepted(u, dt) /\ text \in FinalTexts THEN 1 ELSE 0)]

\* The `finally` of the upload block: os.remove(path) if path is set. The
\* unit's file is gone then (dest is forgotten).
RemoveArtifact(u) ==
    /\ fs' = IF path[u] # NoPath THEN [fs EXCEPT ![path[u]] = "absent"] ELSE fs
    /\ dest' = [dest EXCEPT ![u] = IF path[u] # NoPath THEN NoPath ELSE @]

\* Mutant of Finish: an exception that leaves the handler keeps the permit
\* (acquire and release written out by hand, without try/finally).
FinishLeaksOnEscape(u, how) ==
    /\ pc' = [pc EXCEPT ![u] = "done"]
    /\ outcome' = [outcome EXCEPT ![u] = how]
    /\ permits' = IF kind[u] = "stats" \/ how = "escaped" THEN permits ELSE permits + 1
    /\ kind' = [kind EXCEPT ![u] = "none"]
    /\ path' = [path EXCEPT ![u] = NoPath]
    /\ iter' = [iter EXCEPT ![u] = 0]
    /\ guest' = [guest EXCEPT ![u] = FALSE]
    /\ sent' = [sent EXCEPT ![u] = <<>>]
    /\ used' = [used EXCEPT ![u] = {}]
    /\ result' = [result EXCEPT ![u] = NoResult]
    /\ tried' = [tried EXCEPT ![u] = 0]
    /\ probed' = [probed EXCEPT ![u] = <<>>]
    /\ ret' = [ret EXCEPT ![u] = NoIdx]

\* Mutant of Finish: the permit is never given back.
FinishKeepsPermit(u, how) ==
    /\ pc' = [pc EXCEPT ![u] = "done"]
    /\ outcome' = [outcome EXCEPT ![u] = how]
    /\ permits' = permits
    /\ kind' = [kind EXCEPT ![u] = "none"]
    /\ path' = [path EXCEPT ![u] = NoPath]
    /\ iter' = [iter EXCEPT ![u] = 0]
    /\ guest' = [guest EXCEPT ![u] = FALSE]
    /\ sent' = [sent EXCEPT ![u] = <<>>]
    /\ used' = [used EXCEPT ![u] = {}]
    /\ result' = [result EXCEPT ![u] = NoResult]
    /\ tried' = [tried EXCEPT ![u] = 0]
    /\ probed' = [probed EXCEPT ![u] = <<>>]
    /\ ret' = [ret EXCEPT ![u] = NoIdx]

\* The task ends: leaving `async with sem` gives the permit back.
Finish(u, how) ==
    /\ pc' = [pc EXCEPT ![u] = "done"]
    /\ outcome' = [outcome EXCEPT ![u] = how]
    /\ permits' = IF kind[u] = "stats" THEN permits ELSE permits + 1
    /\ kind' = [kind EXCEPT ![u] = "none"]
    /\ path' = [path EXCEPT ![u] = NoPath]
    /\ iter' = [iter EXCEPT ![u] = 0]
    /\ guest' = [guest EXCEPT ![u] = FALSE]
    /\ sent' = [sent EXCEPT ![u] = <<>>]
    /\ used' = [used EXCEPT ![u] = {}]
    /\ result' = [result EXCEPT ![u] = NoResult]
    /\ tried' = [tried EXCEPT ![u] = 0]
    /\ probed' = [probed EXCEPT ![u] = <<>>]
    /\ ret' = [ret EXCEPT ![u] = NoIdx]

\* handle_incoming_file creates one task per URL or one for the media;
\* the stats command calls pool.pick() at once.
Arrive(u, k) ==
    /\ pc[u] = "idle"
    /\ kind' = [kind EXCEPT ![u] = k]
    /\ pc' = [pc EXCEPT ![u] = IF k = "stats" THEN "pick_lock" ELSE "queued"]
    /\ UNCHANGED <<poolVars, tried, probed, ret, arg, histVars>>
    /\ UNCHANGED <<capacity, permits, since, finals, path, dest, fs,
                   iter, guest, sent, used, result, outcome>>

\* Mutant of SemFree: the gate admits whoever asks.
SemFreeAlways == TRUE

\* The semaphore has a free permit.
SemFree == permits > 0

\* `async with sem`, then reply_text creates the status message and its
\* _ThrottleEdit (_last = 0.0, so the first edit is always passed on).
Admit(u) ==
    /\ pc[u] = "queued"
    /\ SemFree
    /\ permits' = permits - 1
    /\ since' = [since EXCEPT ![u] = INTERVAL]
    /\ pc' = [pc EXCEPT ![u] = IF kind[u] = "http" THEN "http_fetch" ELSE "tg_getfile"]
    /\ UNCHANGED <<poolVars, tried, probed, ret, arg, histVars>>
    /\ UNCHANGED <<capacity, kind, finals, path, dest, fs, iter, guest, sent, used, result, outcome>>

\* _process_http_url, lines 216-223: the "downloading" edit, then
\* pick_filename_for_url is called with the keyword `default`, which
\* netutils.pick_filename_for_url(url, fallback=...) does not take: the call
\* raises TypeError before smart_download is reached, path is still None,
\* and the handler edits the error (dt after the first edit) and returns.
HttpFetch(u, dt) ==
    /\ pc[u] = "http_fetch"
    /\ EditAccepted(u, 0)
    /\ since' = [since EXCEPT ![u] = 0]
    /\ finals' = [finals EXCEPT ![u] = @ + (IF dt >= INTERVAL THEN 1 ELSE 0)]
    /\ Finish(u, "download_failed")
    /\ UNCHANGED <<poolVars, arg, histVars>>
    /\ UNCHANGED <<capacity, dest, fs>>

\* How smart_download(url, dest) can end, and the file it leaves: it returns
\* with the file in place, or it raises once its retries are used up; the
\* file it opened (mode w+b creates it) is not removed on that path.
DownloadOutcomes == {"returned", "raised"}

SmartDownloadFile(how) == IF how = "returned" THEN "complete" ELSE "partial"

\* _download_telegram_file and the handler's `except BadRequest` around it
\* (lines 271-282), for what get_file / the message gives:
\*   "ok": the "downloading" edit (the first edit), then smart_download to
\*         dest p; an exception of smart_download is no BadRequest: it leaves
\*         the handler with `path` still None, so nothing is edited and
\*         nothing removed;
\*   "too_big": BadRequest("File is too big") -> the MTProto download;
\*   "bad_request": another BadRequest -> "Download failed", return;
\*   "no_media": returns None -> `if not path` -> the MTProto download.
TgFetch(u, got, p, how) ==
    /\ pc[u] = "tg_getfile"
    /\ CASE got = "ok" /\ how = "returned" ->
              /\ StatusEdit(u, 0, "downloading")
              /\ fs' = [fs EXCEPT ![p] = SmartDownloadFile(how)]
              /\ dest' = [dest EXCEPT ![u] = p]
              /\ path' = [path EXCEPT ![u] = p]
              /\ pc' = [pc EXCEPT ![u] = "upload_start"]
              /\ UNCHANGED <<permits, kind, iter, guest, sent, used, result, outcome,
                             tried, probed, ret>>
         [] got = "ok" /\ how = "raised" ->
              /\ StatusEdit(u, 0, "downloading")
              /\ fs' = [fs EXCEPT ![p] = SmartDownloadFile(how)]
              /\ dest' = [dest EXCEPT ![u] = p]
              /\ Finish(u, "escaped")
         [] got = "too_big" ->
              /\ pc' = [pc EXCEPT ![u] = "tg_mtproto"]
              /\ UNCHANGED <<since, finals, fs, dest, path, permits, kind, iter,
                             guest, sent, used, result, outcome, tried, probed, ret>>
         [] got = "bad_request" ->
              /\ StatusEdit(u, 0, "error_download")
              /\ Finish(u, "download_failed")
              /\ UNCHANGED <<fs, dest>>
         [] got = "no_media" ->
              /\ pc' = [pc EXCEPT ![u] = "tg_nopath"]
              /\ UNCHANGED <<since, finals, fs, dest, path, permits, kind, iter,
                             guest, sent, used, result, outcome, tried, probed, ret>>
    /\ UNCHANGED <<poolVars, arg, histVars, capacity>>

\* The progress callback of m.download (_pyro_progress_factory) has edited the
\* status while the file was coming in.
MtprotoProgress(u, dt) ==
    /\ pc[u] \in {"tg_mtproto", "tg_nopath"}
    /\ EditAccepted(u, dt)
    /\ StatusEdit(u, dt, "progress")
    /\ UNCHANGED <<poolVars, callVars, histVars>>
    /\ UNCHANGED <<capacity, permits, kind, path, dest, fs, iter, guest, sent, used, result, outcome>>

\* _download_via_pyrogram called from `except BadRequest` (lines 275-279) or
\* from `if not path` (lines 284-289): m.download returns the path of the
\* file, returns None, or raises.
\*   after "File is too big": RPCError -> "Download via MTProto failed";
\*       any other exception leaves the handler;
\*   after `if not path`: any exception -> "No file found".
\* A None from the first call leads to the second; a None from the second
\* goes on to the upload with path None.
TgMtproto(u, got, p, dt) ==
    /\ pc[u] \in {"tg_mtproto", "tg_nopath"}
    /\ CASE got = "file" ->
              /\ fs' = [fs EXCEPT ![p] = "complete"]
              /\ dest' = [dest EXCEPT ![u] = p]
              /\ path' = [path EXCEPT ![u] = p]
              /\ pc' = [pc EXCEPT ![u] = "upload_start"]
              /\ UNCHANGED <<since, finals, permits, kind, iter, guest, sent, used, result,
                             outcome, tried, probed, ret>>
         [] got = "none" ->
              /\ pc' = [pc EXCEPT ![u] = IF pc[u] = "tg_mtproto" THEN "tg_nopath"
                                         ELSE "upload_start"]
              /\ UNCHANGED <<since, finals, fs, dest, path, permits, kind, iter,
                             guest, sent, used, result, outcome, tried, probed, ret>>
         [] got = "rpc_error" ->
              /\ StatusEdit(u, dt, IF pc[u] = "tg_mtproto" THEN "error_download"
                                   ELSE "no_file")
              /\ Finish(u, IF pc[u] = "tg_mtproto" THEN "download_failed" ELSE "no_file")
              /\ UNCHANGED <<fs, dest>>
         [] got = "other_error" ->
              /\ IF pc[u] = "tg_mtproto"
                 THEN /\ Finish(u, "escaped")
                      /\ UNCHANGED <<since, finals>>
                 ELSE /\ StatusEdit(u, dt, "no_file")
                      /\ Finish(u, "no_file")
              /\ UNCHANGED <<fs, dest>>
    /\ UNCHANGED <<poolVars, arg, histVars, capacity>>

\* Line 227 / 293: the "uploading" edit; then the loop's first pick().
UploadStart(u, dt) ==
    /\ pc[u] = "upload_start"
    /\ StatusEdit(u, dt, "uploading")
    /\ pc' = [pc EXCEPT ![u] = "pick_lock"]
    /\ iter' = [iter EXCEPT ![u] = 0]
    /\ UNCHANGED <<poolVars, tried, probed, ret, arg, histVars>>
    /\ UNCHANGED <<capacity, permits, kind, path, dest, fs, guest, sent, used, result, outcome>>

\* GofileClient._auth_headers: the Authorization header is there unless the
\* call is a guest call (the configured tokens are never empty).
AuthHeaders(as_guest) == ~as_guest

\* _upload_once, lines 146-148: folderId is sent only for a folder id and
\* only with authentication.
FolderParam(folder_id, as_guest) == folder_id /\ ~as_guest

\* What one upload request carries. The handlers call upload_file without
\* folder_id, and upload_file passes None to the guest attempt.
Request(as_guest) ==
    [auth |-> AuthHeaders(as_guest), folder |-> FolderParam(FALSE, as_guest)]

\* The indices a pick() call has probed.
ProbedIndices(log) == {log[k][1] : k \in 1..Len(log)}

\* os.path.getsize(file_path) of _upload_once succeeds.
Readable(u) == path[u] # NoPath /\ fs[path[u]] # "absent"

\* pick() returned: upload_file -> _upload_once (lines 143-176) up to the
\* request being sent. getsize raises for a missing file or a None path, and
\* so can the request itself ("net_error"): `except Exception` edits
\* "Upload failed" and returns, through the `finally`.
UploadSend(u, net, dt) ==
    /\ pc[u] \in {"picked", "guest_retry"}
    /\ kind[u] # "stats"
    /\ LET as_guest == pc[u] = "guest_retry" IN
       IF Readable(u) /\ net = "sent"
       THEN /\ pc' = [pc EXCEPT ![u] = "posting"]
            /\ sent' = [sent EXCEPT ![u] = Append(@, Request(as_guest))]
            /\ used' = [used EXCEPT ![u] = @ \cup {ret[u]} \cup ProbedIndices(probed[u])]
            /\ probed' = [probed EXCEPT ![u] = <<>>]
            /\ UNCHANGED <<since, finals, fs, dest, path, permits, kind, iter,
                           guest, result, outcome, tried, ret>>
       ELSE /\ StatusEdit(u, dt, "error_upload")
            /\ RemoveArtifact(u)
            /\ Finish(u, "upload_failed")
    /\ UNCHANGED <<poolVars, arg, histVars, capacity>>

\* on_chunk (lines 155-167): a progress edit while the body is streamed.
UploadProgress(u, dt) ==
    /\ pc[u] = "posting"
    /\ EditAccepted(u, dt)
    /\ StatusEdit(u, dt, "progress")
    /\ UNCHANGED <<poolVars, callVars, histVars>>
    /\ UNCHANGED <<capacity, permits, kind, path, dest, fs, iter, guest, sent, used, result, outcome>>

\* Lines 175-184: the response has arrived; the "100%" edit, then the body is
\* read and normalized.
UploadResponse(u, resp, dt) ==
    /\ pc[u] = "posting"
    /\ StatusEdit(u, dt, "progress100")
    /\ result' = [result EXCEPT ![u] = NormalizeResponse(resp)]
    /\ pc' = [pc EXCEPT ![u] = "responded"]
    /\ UNCHANGED <<poolVars, tried, probed, ret, arg, histVars>>
    /\ UNCHANGED <<capacity, permits, kind, path, dest, fs, iter, guest, sent, used, outcome>>

\* Mutant of GuestRetryWanted: only a 401 is taken for an authorization
\* failure.
GuestRetryOn401Only(u) ==
    ~guest[u] /\ result[u].error /\ result[u].http = 401

\* upload_file, line 192: the first attempt is retried as guest when it is
\* an error with HTTP status 401 or 403.
GuestRetryWanted(u) ==
    ~guest[u] /\ result[u].error /\ result[u].http \in {401, 403}

\* Line 239 / 305: _extract_gofile_result found a link (or built one from a
\* code); the error flag is not looked at before.
HasLink(r) == r.link

\* _upload_once has returned: upload_file's guest retry (lines 190-194), or
\* the handler's treatment of the result (lines 238-254):
\*   a link -> the success edit, break, finally;
\*   no link, error flag -> "Upload failed", return, finally;
\*   neither -> mark_exhausted(idx).
UploadReturn(u, dt) ==
    /\ pc[u] = "responded"
    /\ IF GuestRetryWanted(u)
       THEN /\ guest' = [guest EXCEPT ![u] = TRUE]
            /\ UNCHANGED <<sent, used>>
            /\ result' = [result EXCEPT ![u] = NoResult]
            /\ pc' = [pc EXCEPT ![u] = "guest_retry"]
            /\ UNCHANGED <<since, finals, fs, dest, path, permits, kind, iter,
                           outcome, tried, probed, ret, arg>>
       ELSE IF HasLink(result[u])
       THEN /\ StatusEdit(u, dt, "success")
            /\ RemoveArtifact(u)
            /\ Finish(u, "success")
            /\ UNCHANGED arg
       ELSE IF result[u].error
       THEN /\ StatusEdit(u, dt, "error_upload")
            /\ RemoveArtifact(u)
            /\ Finish(u, "upload_failed")
            /\ UNCHANGED arg
       ELSE /\ arg' = [arg EXCEPT ![u] = ret[u]]
            /\ pc' = [pc EXCEPT ![u] = "mark_lock"]
            /\ guest' = [guest EXCEPT ![u] = FALSE]
            /\ sent' = [sent EXCEPT ![u] = <<>>]
            /\ result' = [result EXCEPT ![u] = NoResult]
            /\ ret' = [ret EXCEPT ![u] = NoIdx]
            /\ UNCHANGED used
            /\ UNCHANGED <<since, finals, fs, dest, path, permits, kind, iter,
                           outcome, tried, probed>>
    /\ UNCHANGED <<poolVars, histVars, capacity>>

\* mark_exhausted returned: the next iteration of `for _ in
\* range(len(pool.tokens))` calls pick(), or the loop's `else` edits
\* "No available GoFile accounts" and the `finally` runs.
LoopNext(u, dt) ==
    /\ pc[u] = "marked"
    /\ IF iter[u] + 1 < ntokens
       THEN /\ iter' = [iter EXCEPT ![u] = @ + 1]
            /\ pc' = [pc EXCEPT ![u] = "pick_lock"]
            /\ UNCHANGED <<since, finals, fs, dest, path, permits, kind, guest, sent, used,
                           result, outcome, tried, probed, ret>>
       ELSE /\ StatusEdit(u, dt, "all_exhausted")
            /\ RemoveArtifact(u)
            /\ Finish(u, "all_exhausted")
    /\ UNCHANGED <<poolVars, arg, histVars, capacity>>

\* pick() raised inside the upload block: no `except` catches it, the
\* `finally` removes the file and the exception leaves the handler.
PickFailed(u) ==
    /\ pc[u] = "pick_raised"
    /\ kind[u] # "stats"
    /\ RemoveArtifact(u)
    /\ Finish(u, "escaped")
    /\ UNCHANGED <<poolVars, arg, histVars>>
    /\ UNCHANGED <<capacity, since, finals>>

\* stats (lines 126-136): after pick() the account is read and the reply
\* sent; an exception of pick() leaves the handler.
StatsReply(u) ==
    /\ pc[u] \in {"picked", "pick_raised"}
    /\ kind[u] = "stats"
    /\ Finish(u, IF pc[u] = "picked" THEN "stats_done" ELSE "stats_escaped")
    /\ UNCHANGED <<poolVars, arg, histVars>>
    /\ UNCHANGED <<capacity, since, finals, dest, fs>>

\* bot.py main(): the pool and the semaphore; no task yet.
OrchInit ==
    /\ capacity \in 1..MaxCapacity
    /\ permits = capacity
    /\ kind = [u \in Units |-> "none"]
    /\ since = [u \in Units |-> 0]
    /\ finals = [u \in Units |-> 0]
    /\ path = [u \in Units |-> NoPath]
    /\ dest = [u \in Units |-> NoPath]
    /\ fs = [p \in Paths |-> "absent"]
    /\ iter = [u \in Units |-> 0]
    /\ guest = [u \in Units |-> FALSE]
    /\ sent = [u \in Units |-> <<>>]
    /\ used = [u \in Units |-> {}]
    /\ result = [u \in Units |-> NoResult]
    /\ outcome = [u \in Units |-> "none"]

\* ------------------------------------------------------- sanitize_filename
\* Names are sequences of characters. The characters a name is built from:
\* a plain one, the space, the underscore, a path separator, the percent
\* sign, two hex digits, and the tab (white space and control character).
Chars == {"x", " ", "_", "/", "%", "2", "5", "\t"}

HexDigits == {"2", "5"}

\* urllib.parse.unquote of one escape %hl.
Decoded(h, l) ==
    CASE h = "2" /\ l = "2" -> "\""
      [] h = "2" /\ l = "5" -> "%"
      [] h = "5" /\ l = "2" -> "R"
      [] h = "5" /\ l = "5" -> "U"

\* unquote(name): every %hh with two hex digits is decoded, once, from left
\* to right; any other percent sign stays.
RECURSIVE Unquote(_)
Unquote(s) ==
    IF s = <<>> THEN <<>>
    ELSE IF Len(s) >= 3 /\ s[1] = "%" /\ s[2] \in HexDigits /\ s[3] \in HexDigits
    THEN <<Decoded(s[2], s[3])>> \o Unquote(SubSeq(s, 4, Len(s)))
    ELSE <<s[1]>> \o Unquote(Tail(s))

\* What str.strip() removes and \s matches, among the characters here.
WhiteSpace == {" ", "\t"}

RECURSIVE StripLeft(_)
StripLeft(s) ==
    IF s # <<>> /\ s[1] \in WhiteSpace THEN StripLeft(Tail(s)) ELSE s

RECURSIVE StripRight(_)
StripRight(s) ==
    IF s # <<>> /\ s[Len(s)] \in WhiteSpace
    THEN StripRight(SubSeq(s, 1, Len(s) - 1)) ELSE s

\* str.strip().
Strip(s) == StripRight(StripLeft(s))

\* The class [\\/:*?"<>|\x00-\x1F] of line 28.
Forbidden == {"/", "\"", "\t"}

\* re.sub(r"[\\/:*?\"<>|\x00-\x1F]", "_", name).
ReplaceForbidden(s) ==
    [k \in 1..Len(s) |-> IF s[k] \in Forbidden THEN "_" ELSE s[k]]

\* The class [\s_] of line 30.
Blank == WhiteSpace \cup {"_"}

\* The length of the run of blanks s begins with.
RECURSIVE RunLength(_)
RunLength(s) ==
    IF s # <<>> /\ s[1] \in Blank THEN 1 + RunLength(Tail(s)) ELSE 0

\* re.sub(r"[\s_]{2,}", " ", name): every maximal run of two or more blanks
\* becomes one space.
RECURSIVE Collapse(_)
Collapse(s) ==
    IF s = <<>> THEN <<>>
    ELSE IF RunLength(s) >= 2
    THEN <<" ">> \o Collapse(SubSeq(s, RunLength(s) + 1, Len(s)))
    ELSE <<s[1]>> \o Collapse(Tail(s))

\* `name or "file.bin"`.
DefaultName == <<"f", "i", "l", "e", ".", "b", "i", "n">>

\* sanitize_filename(name), lines 26-31.
sanitize_filename(name) ==
    LET cleaned == Strip(Collapse(ReplaceForbidden(Strip(Unquote(name)))))
    IN  IF cleaned = <<>> THEN DefaultName ELSE cleaned

\* The names of at most n characters.
RECURSIVE Names(_)
Names(n) ==
    IF n = 0 THEN {<<>>}
    ELSE Names(n - 1) \cup {Append(s, c) : s \in Names(n - 1), c \in Chars}

\* sanitize_filename is not being applied.
SanIdle ==
    /\ san_pc = 0
    /\ san_in = <<>>
    /\ san_out = <<>>

\* A name has come in (from a URL, a header or a message).
SanInit ==
    /\ san_pc = 0
    /\ san_in \in Names(MaxStr)
    /\ san_out = san_in

\* sanitize_filename is applied to the name, then to its own result.
Sanitize ==
    /\ san_pc < 2
    /\ san_pc' = san_pc + 1
    /\ san_out' = sanitize_filename(san_out)
    /\ UNCHANGED san_in

\* ----------------------------------------------------------- http_download
\* max_retries of http_download (its default).
max_retries == 3

\* total_size is None.
NoSize == 0

\* No http_download call is modelled.
HdIdle ==
    /\ hd_pc = "idle"
    /\ hd_source = 1
    /\ hd_total_size = NoSize
    /\ hd_tmp = <<>>
    /\ bytes_done = 0
    /\ hd_attempt = 0
    /\ hd_pos = 0
    /\ hd_status = "none"
    /\ hd_from = 0
    /\ hd_clen = FALSE

\* http_download(url, dest_dir) has been called: lines 47-65. tmp_path is a
\* new name, so there is no file at it.
HdInit ==
    /\ hd_pc = "loop"
    /\ hd_source \in 1..MaxSize
    /\ hd_total_size = NoSize
    /\ hd_tmp = <<>>
    /\ bytes_done = 0
    /\ hd_attempt = 0
    /\ hd_pos = 0
    /\ hd_status = "none"
    /\ hd_from = 0
    /\ hd_clen = FALSE

\* Lines 99-100: mode = "ab" if bytes_done else "wb"; "wb" empties the file.
OpenMode(done, bytes) == IF done > 0 THEN bytes ELSE <<>>

\* Lines 92-97: Content-Length, when there is one, gives total_size: on a
\* resume it is taken for the remainder, whatever the status.
InferTotal(done, clen) == IF done > 0 THEN done + clen ELSE clen

\* Lines 68-100: one round of `while attempt < max_retries` up to the file
\* being opened. The Range header is sent for bytes_done > 0; the answer is
\*   "206": the range is served (only to a Range header within the body),
\*   "200": the full body,
\*   "http_error": raise_for_status raises (`except Exception`: break),
\*   "conn_error": the request raises a connection error (sleep, continue).
\* has_clen: the response carries a Content-Length.
HdRequest(resp, has_clen) ==
    /\ hd_pc = "loop"
    /\ hd_attempt < max_retries
    /\ resp = "206" => (bytes_done > 0 /\ bytes_done < hd_source)
    /\ hd_attempt' = hd_attempt + 1
    /\ hd_from' = bytes_done
    /\ hd_status' = resp
    /\ hd_clen' = (resp \in {"200", "206"} /\ has_clen)
    /\ CASE resp = "http_error" ->
              /\ hd_pc' = "raised"
              /\ hd_tmp' = <<>>
              /\ UNCHANGED <<hd_total_size, hd_pos>>
         [] resp = "conn_error" ->
              /\ hd_pc' = "loop"
              /\ UNCHANGED <<hd_tmp, hd_total_size, hd_pos>>
         [] resp \in {"200", "206"} ->
              /\ hd_pc' = "stream"
              /\ hd_pos' = IF resp = "206" THEN bytes_done ELSE 0
              /\ hd_total_size' =
                    IF has_clen
                    THEN InferTotal(bytes_done, IF resp = "206"
                                                THEN hd_source - bytes_done
                                                ELSE hd_source)
                    ELSE hd_total_size
              /\ hd_tmp' = OpenMode(bytes_done, hd_tmp)
    /\ UNCHANGED <<hd_source, bytes_done>>

\* Lines 104-109: the next chunk is written at the end of the file.
HdChunk ==
    /\ hd_pc = "stream"
    /\ hd_pos < hd_source
    /\ hd_tmp' = Append(hd_tmp, hd_pos + 1)
    /\ bytes_done' = bytes_done + 1
    /\ hd_pos' = hd_pos + 1
    /\ UNCHANGED <<hd_pc, hd_source, hd_total_size, hd_attempt, hd_status, hd_from,
                   hd_clen>>

\* Lines 152-156: the body breaks off with an error (ClientPayloadError,
\* ServerDisconnectedError): sleep one second, continue.
HdDisconnect ==
    /\ hd_pc = "stream"
    /\ hd_pos < hd_source
    /\ hd_pc' = "loop"
    /\ UNCHANGED <<hd_source, hd_total_size, hd_tmp, bytes_done, hd_attempt,
                   hd_pos, hd_status, hd_from, hd_clen>>

\* Lines 134-150: the body has been read to its end without error: the end
\* of the source, or sooner when the connection is closed and no
\* Content-Length said how much was to come (with one, aiohttp raises
\* ClientPayloadError). With total_size None or reached, tmp_path is moved
\* to final_path and returned; else `continue`.
HdEof ==
    /\ hd_pc = "stream"
    /\ hd_pos = hd_source \/ ~hd_clen
    /\ hd_pc' = IF hd_total_size = NoSize \/ bytes_done >= hd_total_size
                THEN "returned" ELSE "loop"
    /\ UNCHANGED <<hd_source, hd_total_size, hd_tmp, bytes_done, hd_attempt,
                   hd_pos, hd_status, hd_from, hd_clen>>

\* Lines 164-173: the retries are used up; tmp_path is unlinked and the
\* last error (or a RuntimeError) is raised.
HdGiveUp ==
    /\ hd_pc = "loop"
    /\ hd_attempt >= max_retries
    /\ hd_pc' = "raised"
    /\ hd_tmp' = <<>>
    /\ UNCHANGED <<hd_source, hd_total_size, bytes_done, hd_attempt, hd_pos,
                   hd_status, hd_from, hd_clen>>

\* ----------------------------------------------------------- _upload_once
\* No percentage has been shown.
NoPct == -1

\* The cap of line 163, 99.9 %, in tenths of a percent.
PctCap == 999

\* No _upload_once call is modelled step by step.
UpIdle ==
    /\ up_pc = "idle"
    /\ file_size = 0
    /\ up_len = 0
    /\ up_sent = 0
    /\ up_pct = NoPct
    /\ up_hundred = FALSE

\* _upload_once has been called with a status message: lines 146-173.
\* file_size is what os.path.getsize said; what _iter_file reads later can be
\* more or less (the file is at a path other units write to and remove).
UpInit ==
    /\ up_pc = "posting"
    /\ file_size \in 0..MaxSize
    /\ up_len \in 0..MaxSize
    /\ up_sent = 0
    /\ up_pct = NoPct
    /\ up_hundred = FALSE

\* Mutant of Pct: the percentage without the cap.
PctUncapped(n, size) ==
    IF size = 0 THEN 0 ELSE (n * 1000) \div size

\* Lines 162-163: sent / file_size * 100, or 0.0 for an empty file, capped
\* at 99.9; in tenths of a percent.
Pct(n, size) ==
    LET pct == IF size = 0 THEN 0 ELSE (n * 1000) \div size
    IN  IF pct <= PctCap THEN pct ELSE PctCap

\* on_chunk(n), lines 155-167, called by _iter_file for each chunk it has
\* read; the text is shown when a second has passed since the last one.
UpChunk(late) ==
    /\ up_pc = "posting"
    /\ up_sent < up_len
    /\ up_sent' = up_sent + 1
    /\ up_pct' = IF late THEN Pct(up_sent + 1, file_size) ELSE up_pct
    /\ UNCHANGED <<up_pc, file_size, up_len, up_hundred>>

\* Lines 175-182: the response has arrived (the body was sent, or the
\* remote answered before its end); the "100%" text is emitted.
UpResponse ==
    /\ up_pc = "posting"
    /\ up_pc' = "responded"
    /\ up_hundred' = TRUE
    /\ UNCHANGED <<file_size, up_len, up_sent, up_pct>>

\* Lines 183-184: the body of the response is read and normalized.
UpReturn ==
    /\ up_pc = "responded"
    /\ up_pc' = "returned"
    /\ UNCHANGED <<file_size, up_len, up_sent, up_pct, up_hundred>>

\* ------------------------------------------------------------ _ThrottleEdit
\* The tasks that call edit() on one status object: the handler and the
\* progress tasks made by create_task (gofile_api.py 164, handlers.py 86).
Tasks == 1..MaxTasks

\* No _ThrottleEdit is modelled on its own.
ThIdle ==
    /\ th_now = 0
    /\ th_last = 0
    /\ th_pc = [t \in Tasks |-> "idle"]
    /\ th_accepted = <<>>
    /\ th_sends = 0
    /\ th_calls = 0

\* _ThrottleEdit.__init__: _last = 0.0; time.time() is far more than one
\* interval past 0.
ThInit ==
    /\ th_now = INTERVAL
    /\ th_last = 0
    /\ th_pc = [t \in Tasks |-> "idle"]
    /\ th_accepted = <<>>
    /\ th_sends = 0
    /\ th_calls = 0

\* Time passes: one interval.
ThTick ==
    /\ th_now < INTERVAL + MaxTime
    /\ th_now' = th_now + 1
    /\ UNCHANGED <<th_last, th_pc, th_accepted, th_sends, th_calls>>

\* Mutant of LastSet: _last is not set before the await.
LastSetSkipped(now) == th_last

\* Line 42: self._last = now, before edit_text is awaited.
LastSet(now) == now

\* edit(text), lines 40-44, up to its await: the test and the assignment
\* run without an await between them. An edit that comes too soon returns
\* at once; nothing is kept of it.
ThEdit(t) ==
    /\ th_pc[t] = "idle"
    /\ th_calls < MaxEdits
    /\ th_calls' = th_calls + 1
    /\ IF th_now - th_last >= INTERVAL
       THEN /\ th_last' = LastSet(th_now)
            /\ th_accepted' = Append(th_accepted, th_now)
            /\ th_sends' = th_sends + 1
            /\ th_pc' = [th_pc EXCEPT ![t] = "sending"]
       ELSE UNCHANGED <<th_last, th_accepted, th_sends, th_pc>>
    /\ UNCHANGED th_now

\* Lines 44-50: msg.edit_text has returned, or raised (`except Exception:
\* pass`); edit() returns either way.
ThSent(t) ==
    /\ th_pc[t] = "sending"
    /\ th_pc' = [th_pc EXCEPT ![t] = "idle"]
    /\ UNCHANGED <<th_now, th_last, th_accepted, th_sends, th_calls>>

\* --------------------------------------------------------- smart_download
\* netutils.MAX_RETRIES.
MAX_RETRIES == 5

\* No probed size (size = -1).
UnknownSize == -1

\* Byte k of the body the URL serves is written k (1..source); 0 is a byte
\* that is not the source's.
Stale == 0

\* The files that can be at out_path when the call begins: none, the first
\* bytes of this source (what an earlier call that gave up left behind), or
\* another file of the same name.
PriorFiles ==
    {<<>>}
    \cup {[k \in 1..g |-> k] : g \in 1..MaxSize}
    \cup {[k \in 1..g |-> Stale] : g \in 1..MaxSize}

\* No smart_download call is modelled step by step.
DlIdle ==
    /\ dpc = "idle"
    /\ source = 1
    /\ total_size = UnknownSize
    /\ ranged = FALSE
    /\ out_exists = FALSE
    /\ out_bytes = <<>>
    /\ attempt = 0
    /\ downloaded = 0
    /\ pos = 0
    /\ fresh = TRUE
    /\ reqs = <<>>
    /\ nreqs = 0
    /\ nsleeps = 0

\* smart_download(url, out_path) has been called.
DlInit ==
    /\ dpc = "probe"
    /\ source \in 1..MaxSize
    /\ total_size = UnknownSize
    /\ ranged = FALSE
    /\ out_exists \in BOOLEAN
    /\ out_bytes \in PriorFiles
    /\ out_exists = FALSE => out_bytes = <<>>
    /\ out_exists = TRUE => (out_bytes # <<>> /\ \A k \in 1..Len(out_bytes) : out_bytes[k] <= source)
    /\ attempt = 0
    /\ downloaded = 0
    /\ pos = 0
    /\ fresh = ~out_exists
    /\ reqs = <<>>
    /\ nreqs = 0
    /\ nsleeps = 0

\* Lines 129-137: _probe_headers gives (size, ranged); the early exit for a
\* file that is already at least total_size long.
DlProbe(known, rg) ==
    /\ dpc = "probe"
    /\ total_size' = IF known THEN source ELSE UnknownSize
    /\ ranged' = rg
    /\ dpc' = IF known /\ out_exists /\ Len(out_bytes) >= source
              THEN "returned" ELSE "open"
    /\ attempt' = 0
    /\ UNCHANGED <<source, out_exists, out_bytes, downloaded, pos, fresh, reqs, nreqs, nsleeps>>

\* Mutant of BudgetLeft: one more retry than MAX_RETRIES.
BudgetLeftOneMore(n) == n <= MAX_RETRIES + 1

\* Lines 177 / 186: `if attempt > MAX_RETRIES: raise`.
BudgetLeft(n) == n <= MAX_RETRIES

\* The `except Exception` of lines 184-188: count the attempt; raise when
\* the budget is used up, else sleep.
Failed ==
    /\ attempt' = attempt + 1
    /\ dpc' = IF BudgetLeft(attempt + 1) THEN "sleep" ELSE "raised"

\* Mutant of RangeFrom: the resume asks for the body from its start.
RangeFromStart(d) == 0

\* Line 149: headers["Range"] = f"bytes={downloaded}-".
RangeFrom(d) == d

\* The log with one more request.
Logged(from, status) ==
    /\ nreqs' = nreqs + 1
    /\ reqs' = IF Len(reqs) < 2
               THEN Append(reqs, [from |-> from, status |-> status, wrote |-> 0])
               ELSE reqs

\* fp.seek(at); fp.write(<<b>>) on a file opened r+b / w+b.
WriteAt(bytes, at, b) ==
    IF at < Len(bytes) THEN [bytes EXCEPT ![at + 1] = b] ELSE Append(bytes, b)

\* Mutant of Kept: the bytes on disk stay when the full body is answered.
KeptWhateverStatus(resp, bytes) == bytes

\* Lines 156-159: what is left of the file once the status is known; a 200
\* truncates it (fp.seek(0); fp.truncate(0)).
Kept(resp, bytes) == IF resp = "200" THEN <<>> ELSE bytes

\* Lines 141-159: open(out_path) creates the file if there is none;
\* `downloaded` is its length; the Range header is sent for downloaded > 0
\* and ranged; the GET is answered
\*   "206": the range is honoured (only to a Range header within the body),
\*   "200": the whole body; bytes already there are truncated away,
\*   "http_error": another status, raise_for_status raises (416 for a range
\*                 at or past the end),
\*   "conn_error": the request raises.
DlOpen(resp) ==
    /\ dpc = "open"
    /\ LET d0 == IF out_exists THEN Len(out_bytes) ELSE 0
           withRange == d0 > 0 /\ ranged
       IN  /\ resp = "206" => (withRange /\ RangeFrom(d0) < source)
           /\ out_exists' = TRUE
           /\ IF resp \in {"http_error", "conn_error"}
              THEN /\ Failed
                   /\ Logged(IF withRange THEN RangeFrom(d0) ELSE 0, resp)
                   /\ UNCHANGED <<out_bytes, downloaded, pos>>
              ELSE /\ dpc' = "stream"
                   /\ out_bytes' = Kept(resp, out_bytes)
                   /\ downloaded' = IF resp = "200" THEN 0 ELSE d0
                   /\ pos' = IF resp = "200" THEN 0 ELSE RangeFrom(d0)
                   /\ Logged(IF withRange THEN RangeFrom(d0) ELSE 0, resp)
                   /\ UNCHANGED attempt
    /\ UNCHANGED <<source, total_size, ranged, fresh, nsleeps>>

\* Lines 164-171: the next chunk of the response is written at `downloaded`.
DlChunk ==
    /\ dpc = "stream"
    /\ pos < source
    /\ out_bytes' = WriteAt(out_bytes, downloaded, pos + 1)
    /\ downloaded' = downloaded + 1
    /\ pos' = pos + 1
    /\ reqs' = IF nreqs <= 2 THEN [reqs EXCEPT ![nreqs].wrote = @ + 1] ELSE reqs
    /\ UNCHANGED <<dpc, source, total_size, ranged, out_exists, attempt, fresh, nreqs, nsleeps>>

\* The connection breaks while the body is read: aiter_bytes raises.
DlDisconnect ==
    /\ dpc = "stream"
    /\ pos < source
    /\ Failed
    /\ UNCHANGED <<source, total_size, ranged, out_exists, out_bytes, downloaded,
                   pos, fresh, reqs, nreqs, nsleeps>>

\* The response ends, at the end of the body or before it ("server closed
\* early"). Lines 173-182: with a known size a short file counts as a failed
\* attempt (the RuntimeError of line 178 is raised inside the `try`, so the
\* `except` counts it once more and re-raises); else the call returns.
DlEof ==
    /\ dpc = "stream"
    /\ IF total_size > 0 /\ downloaded < total_size
       THEN IF BudgetLeft(attempt + 1)
            THEN /\ attempt' = attempt + 1
                 /\ dpc' = "sleep"
            ELSE /\ attempt' = attempt + 2
                 /\ dpc' = "raised"
       ELSE /\ dpc' = "returned"
            /\ UNCHANGED attempt
    /\ UNCHANGED <<source, total_size, ranged, out_exists, out_bytes, downloaded,
                   pos, fresh, reqs, nreqs, nsleeps>>

\* await asyncio.sleep(_rng_delay(attempt)) is over: the loop goes round.
DlSleep ==
    /\ dpc = "sleep"
    /\ dpc' = "open"
    /\ nsleeps' = nsleeps + 1
    /\ UNCHANGED <<source, total_size, ranged, out_exists, out_bytes, attempt,
                   downloaded, pos, fresh, reqs, nreqs>>

\* One call of smart_download, step by step; the bot around it is at rest.
InitDL ==
    /\ PoolInit /\ CallInit /\ HistInit /\ OrchInit /\ ntokens = 1 /\ capacity = 1
    /\ DlInit /\ SanIdle /\ HdIdle /\ UpIdle /\ ThIdle

NextDL ==
    \/ \E known \in BOOLEAN, rg \in BOOLEAN :
          DlProbe(known, rg) /\ UNCHANGED <<poolVars, callVars, histVars, orchVars, sanVars, hdVars, upVars, thVars>>
    \/ \E resp \in {"206", "200", "http_error", "conn_error"} :
          DlOpen(resp) /\ UNCHANGED <<poolVars, callVars, histVars, orchVars, sanVars, hdVars, upVars, thVars>>
    \/ DlChunk /\ UNCHANGED <<poolVars, callVars, histVars, orchVars, sanVars, hdVars, upVars, thVars>>
    \/ DlDisconnect /\ UNCHANGED <<poolVars, callVars, histVars, orchVars, sanVars, hdVars, upVars, thVars>>
    \/ DlEof /\ UNCHANGED <<poolVars, callVars, histVars, orchVars, sanVars, hdVars, upVars, thVars>>
    \/ DlSleep /\ UNCHANGED <<poolVars, callVars, histVars, orchVars, sanVars, hdVars, upVars, thVars>>

\* The event loop runs a task that is ready; every network await of the call
\* is bounded by a timeout.
SpecDL == InitDL /\ [][NextDL]_vars /\ WF_vars(NextDL)

InitSan ==
    /\ PoolInit /\ CallInit /\ HistInit /\ OrchInit /\ ntokens = 1 /\ capacity = 1
    /\ DlIdle /\ SanInit /\ HdIdle /\ UpIdle /\ ThIdle

NextSan ==
    Sanitize /\ UNCHANGED <<poolVars, callVars, histVars, orchVars, dlVars, hdVars, upVars, thVars>>

SpecSan == InitSan /\ [][NextSan]_vars

\* One call of http_download, step by step; the bot around it is at rest.
InitHD ==
    /\ PoolInit /\ CallInit /\ HistInit /\ OrchInit /\ ntokens = 1 /\ capacity = 1
    /\ DlIdle /\ SanIdle /\ HdInit /\ UpIdle /\ ThIdle

NextHD ==
    \/ \E resp \in {"206", "200", "http_error", "conn_error"}, has_clen \in BOOLEAN :
          HdRequest(resp, has_clen)
          /\ UNCHANGED <<poolVars, callVars, histVars, orchVars, dlVars, sanVars, upVars, thVars>>
    \/ HdChunk /\ UNCHANGED <<poolVars, callVars, histVars, orchVars, dlVars, sanVars, upVars, thVars>>
    \/ HdDisconnect /\ UNCHANGED <<poolVars, callVars, histVars, orchVars, dlVars, sanVars, upVars, thVars>>
    \/ HdEof /\ UNCHANGED <<poolVars, callVars, histVars, orchVars, dlVars, sanVars, upVars, thVars>>
    \/ HdGiveUp /\ UNCHANGED <<poolVars, callVars, histVars, orchVars, dlVars, sanVars, upVars, thVars>>

SpecHD == InitHD /\ [][NextHD]_vars

\* One call of _upload_once, step by step; the bot around it is at rest.
InitUp ==
    /\ PoolInit /\ CallInit /\ HistInit /\ OrchInit /\ ntokens = 1 /\ capacity = 1
    /\ DlIdle /\ SanIdle /\ HdIdle /\ UpInit /\ ThIdle

NextUp ==
    \/ \E late \in BOOLEAN : UpChunk(late)
          /\ UNCHANGED <<poolVars, callVars, histVars, orchVars, dlVars, sanVars, hdVars, thVars>>
    \/ UpResponse
          /\ UNCHANGED <<poolVars, callVars, histVars, orchVars, dlVars, sanVars, hdVars, thVars>>
    \/ UpReturn
          /\ UNCHANGED <<poolVars, callVars, histVars, orchVars, dlVars, sanVars, hdVars, thVars>>

SpecUp == InitUp /\ [][NextUp]_vars

\* One status object and the tasks that edit it; the bot around it is at
\* rest.
InitTh ==
    /\ PoolInit /\ CallInit /\ HistInit /\ OrchInit /\ ntokens = 1 /\ capacity = 1
    /\ DlIdle /\ SanIdle /\ HdIdle /\ UpIdle /\ ThInit

NextTh ==
    \/ ThTick
          /\ UNCHANGED <<poolVars, callVars, histVars, orchVars, dlVars, sanVars, hdVars, upVars>>
    \/ \E t \in Tasks : ThEdit(t)
          /\ UNCHANGED <<poolVars, callVars, histVars, orchVars, dlVars, sanVars, hdVars, upVars>>
    \/ \E t \in Tasks : ThSent(t)
          /\ UNCHANGED <<poolVars, callVars, histVars, orchVars, dlVars, sanVars, hdVars, upVars>>

SpecTh == InitTh /\ [][NextTh]_vars

\* The pool alone, with tasks that call pick() and mark_exhausted().
InitPool ==
    /\ PoolInit /\ CallInit /\ HistInit
    /\ OrchInit /\ capacity = 1
    /\ DlIdle /\ SanIdle /\ HdIdle /\ UpIdle /\ ThIdle

NextPool ==
    \/ \E u \in Units : CallPick(u)
          /\ UNCHANGED <<dlVars, sanVars, hdVars, upVars, thVars>>
    \/ \E u \in Units : PickEnter(u) /\ Observe(u) /\ UNCHANGED <<orchVars, dlVars, sanVars, hdVars, upVars, thVars>>
    \/ \E u \in Units, resp \in ProbeResponses :
          PickProbe(u, resp) /\ Observe(u) /\ UNCHANGED <<orchVars, dlVars, sanVars, hdVars, upVars, thVars>>
    \/ \E u \in Units : CallMark(u)
          /\ UNCHANGED <<dlVars, sanVars, hdVars, upVars, thVars>>
    \/ \E u \in Units : MarkExhausted(u) /\ Observe(u) /\ UNCHANGED <<orchVars, dlVars, sanVars, hdVars, upVars, thVars>>
    \/ \E u \in Units : Return(u)
          /\ UNCHANGED <<dlVars, sanVars, hdVars, upVars, thVars>>

SpecPool == InitPool /\ [][NextPool]_vars

\* The bot: transfer units and stats commands over the pool and the gate.
Init == PoolInit /\ CallInit /\ HistInit /\ OrchInit /\ DlIdle /\ SanIdle /\ HdIdle /\ UpIdle /\ ThIdle

Next ==
    \/ \E u \in Units, k \in {"http", "tg", "stats"} : Arrive(u, k)
          /\ UNCHANGED <<dlVars, sanVars, hdVars, upVars, thVars>>
    \/ \E u \in Units : Admit(u)
          /\ UNCHANGED <<dlVars, sanVars, hdVars, upVars, thVars>>
    \/ \E u \in Units, dt \in Delays : HttpFetch(u, dt)
          /\ UNCHANGED <<dlVars, sanVars, hdVars, upVars, thVars>>
    \/ \E u \in Units, got \in {"ok", "too_big", "bad_request", "no_media"},
          p \in Paths, how \in DownloadOutcomes : TgFetch(u, got, p, how)
          /\ UNCHANGED <<dlVars, sanVars, hdVars, upVars, thVars>>
    \/ \E u \in Units, dt \in Delays : MtprotoProgress(u, dt)
          /\ UNCHANGED <<dlVars, sanVars, hdVars, upVars, thVars>>
    \/ \E u \in Units, got \in {"file", "none", "rpc_error", "other_error"},
          p \in Paths, dt \in Delays : TgMtproto(u, got, p, dt)
          /\ UNCHANGED <<dlVars, sanVars, hdVars, upVars, thVars>>
    \/ \E u \in Units, dt \in Delays : UploadStart(u, dt)
          /\ UNCHANGED <<dlVars, sanVars, hdVars, upVars, thVars>>
    \/ \E u \in Units : PickEnter(u) /\ UNCHANGED <<histVars, orchVars, dlVars, sanVars, hdVars, upVars, thVars>>
    \/ \E u \in Units, resp \in ProbeResponses :
          PickProbe(u, resp) /\ UNCHANGED <<histVars, orchVars, dlVars, sanVars, hdVars, upVars, thVars>>
    \/ \E u \in Units, net \in {"sent", "net_error"}, dt \in Delays :
          UploadSend(u, net, dt)
          /\ UNCHANGED <<dlVars, sanVars, hdVars, upVars, thVars>>
    \/ \E u \in Units, dt \in Delays : UploadProgress(u, dt)
          /\ UNCHANGED <<dlVars, sanVars, hdVars, upVars, thVars>>
    \/ \E u \in Units, resp \in UploadResponses, dt \in Delays :
          UploadResponse(u, resp, dt)
          /\ UNCHANGED <<dlVars, sanVars, hdVars, upVars, thVars>>
    \/ \E u \in Units, dt \in Delays : UploadReturn(u, dt)
          /\ UNCHANGED <<dlVars, sanVars, hdVars, upVars, thVars>>
    \/ \E u \in Units : MarkExhausted(u) /\ UNCHANGED <<histVars, orchVars, dlVars, sanVars, hdVars, upVars, thVars>>
    \/ \E u \in Units, dt \in Delays : LoopNext(u, dt)
          /\ UNCHANGED <<dlVars, sanVars, hdVars, upVars, thVars>>
    \/ \E u \in Units : PickFailed(u)
          /\ UNCHANGED <<dlVars, sanVars, hdVars, upVars, thVars>>
    \/ \E u \in Units : StatsReply(u)
          /\ UNCHANGED <<dlVars, sanVars, hdVars, upVars, thVars>>

Spec == Init /\ [][Next]_vars

\* What the event loop and the network owe to a unit that has arrived: its
\* task is run when it is ready, and every request it awaits is answered.
\* Arrivals and progress callbacks are owed to nobody.
Proceed(u) ==
    /\ \/ Admit(u)
       \/ \E dt \in Delays : HttpFetch(u, dt)
       \/ \E got \in {"ok", "too_big", "bad_request", "no_media"},
             p \in Paths, how \in DownloadOutcomes : TgFetch(u, got, p, how)
       \/ \E got \in {"file", "none", "rpc_error", "other_error"},
             p \in Paths, dt \in Delays : TgMtproto(u, got, p, dt)
       \/ \E dt \in Delays : UploadStart(u, dt)
       \/ PickEnter(u) /\ UNCHANGED <<histVars, orchVars>>
       \/ \E resp \in ProbeResponses :
             PickProbe(u, resp) /\ UNCHANGED <<histVars, orchVars>>
       \/ \E net \in {"sent", "net_error"}, dt \in Delays : UploadSend(u, net, dt)
       \/ \E resp \in UploadResponses, dt \in Delays : UploadResponse(u, resp, dt)
       \/ \E dt \in Delays : UploadReturn(u, dt)
       \/ MarkExhausted(u) /\ UNCHANGED <<histVars, orchVars>>
       \/ \E dt \in Delays : LoopNext(u, dt)
       \/ PickFailed(u)
       \/ StatsReply(u)
    /\ UNCHANGED <<dlVars, sanVars, hdVars, upVars, thVars>>

\* The liveness runs use one token: the upload loop is bounded by the number
\* of tokens whatever that number is, and the gate and the lock are contended
\* all the same.
InitLive == Init /\ ntokens = 1

\* The bot on a fair event loop with a network that answers.
SpecLive == InitLive /\ [][Next]_vars /\ \A u \in Units : WF_vars(Proceed(u))

\* ================================================================ claims
\* The transfer units the gate has admitted and that have not ended.
InFlight ==
    {u \in Units : kind[u] \in {"http", "tg"} /\ pc[u] \notin {"idle", "queued", "done"}}

\* The units that have ended and were transfer units.
Ended == {u \in Units : pc[u] = "done" /\ outcome[u] \notin {"stats_done", "stats_escaped"}}

\* C1: at every moment the number of transfer units admitted by the gate
\* and not yet ended is at most MAX_CONCURRENT_TRANSFERS, and the free
\* permits are what is left of the capacity.
C1_GateBound ==
    /\ Cardinality(InFlight) <= capacity
    /\ permits = capacity - Cardinality(InFlight)

\* The gate is full and a unit waits in front of it.
C1_Witness ==
    /\ Cardinality(InFlight) = capacity
    /\ \E u \in Units : pc[u] = "queued"

\* C2: whenever a unit has ended, the file it created at its destination
\* path no longer exists.
C2_ArtifactRemoved ==
    \A u \in Ended : dest[u] = NoPath \/ fs[dest[u]] = "absent"

\* C3: for every unit that has ended, exactly one final status text has
\* reached the status message.
C3_OneFinalStatus ==
    \A u \in Ended : finals[u] = 1

\* C11: every admitted unit gives its permit back however it ends: when no
\* unit is in flight all permits are free, and there are never more free
\* permits than the capacity (no release without an acquire).
C11_PermitsGivenBack ==
    /\ permits \in 0..capacity
    /\ (InFlight = {} => permits = capacity)

\* A unit was ended by an escaping exception, another by an error text, none
\* is in flight, and the gate is free again.
C11_Witness ==
    /\ InFlight = {}
    /\ permits = capacity
    /\ \E u \in Ended : outcome[u] = "escaped"
    /\ \E u \in Ended : outcome[u] \in {"download_failed", "upload_failed", "all_exhausted", "success"}

\* C12: upload_file goes into its guest retry exactly when the attempt that
\* has just returned is the call's first and is an error with HTTP status
\* 401 or 403; a call never sends more than two requests; the first carries
\* the Authorization header, the second neither it nor a folderId; and the
\* result of the guest attempt goes to the handler, which ends the unit or
\* marks the credential.
C12_GuestRetryOnce ==
    [][\A u \in Units :
          /\ Len(sent'[u]) <= 2
          /\ Len(sent'[u]) >= 1 => sent'[u][1].auth
          /\ Len(sent'[u]) = 2 => ~sent'[u][2].auth /\ ~sent'[u][2].folder
          /\ (pc[u] = "responded" /\ pc'[u] # "responded") =>
                /\ pc'[u] = "guest_retry" <=>
                      (Len(sent[u]) = 1 /\ result[u].error /\ result[u].http \in {401, 403})
                /\ Len(sent[u]) = 2 => pc'[u] \in {"done", "mark_lock"}]_vars

\* The guest attempt of a call whose first attempt was refused has been
\* answered.
C12_Witness ==
    \E u \in Units : pc[u] = "responded" /\ Len(sent[u]) = 2 /\ result[u].error

\* A step in which u ends with the "No available GoFile accounts" text.
EndsAllExhausted(u) == outcome[u] = "none" /\ outcome'[u] = "all_exhausted"

\* C13: when a unit ends all-exhausted, its upload loop has been through
\* every credential index 0..N-1 (uploaded with it, or had it probed in one
\* of its own pick() calls).
C13_AllExhaustedTriedAll ==
    [][\A u \in Units : EndsAllExhausted(u) => used[u] = Indices]_vars

\* upload_file has returned to the handler a result the remote refused: the
\* error flag, and no link in the body (after the guest attempt, if any).
Rejected(u) ==
    /\ pc[u] = "responded"
    /\ ~GuestRetryWanted(u)
    /\ result[u].error
    /\ ~HasLink(result[u])

\* C14: when the remote has refused the upload for the chosen credential,
\* the handler marks that credential exhausted and goes on to the next
\* pick(); it does not end the unit.
C14_RejectionRotates ==
    [][\A u \in Units :
          (Rejected(u) /\ pc'[u] # "responded") =>
              pc'[u] = "mark_lock" /\ arg'[u] = ret[u]]_vars

\* C15: a unit that ends all-exhausted has had its local file removed and
\* exactly one final status text, the all-exhausted one, has reached its
\* status message.
C15_AllExhaustedScenario ==
    \A u \in Units :
        outcome[u] = "all_exhausted" =>
            /\ finals[u] = 1
            /\ dest[u] = NoPath \/ fs[dest[u]] = "absent"

\* C16: whenever smart_download has returned for a source whose probed
\* size is known, the destination file is exactly that long, whatever was at
\* the destination before.
C16_ReturnedLengthIsSize ==
    (dpc = "returned" /\ total_size > 0) =>
        (out_exists /\ Len(out_bytes) = total_size)

\* C17: when smart_download has given up, the partially written file is
\* gone.
C17_PartialDeletedOnGiveUp ==
    dpc = "raised" => ~out_exists

\* smart_download has returned or raised.
DlOver == dpc \in {"returned", "raised"}

SourcePrefix(n) == [k \in 1..n |-> k]

\* A fetch of unknown size into a new file made two requests: the first
\* was interrupted after it had written A bytes, the second was a resume
\* (answered 206) and wrote B bytes, and the call has returned.
ResumedOnce ==
    /\ dpc = "returned"
    /\ total_size = UnknownSize
    /\ fresh
    /\ nreqs = 2
    /\ reqs[2].status = "206"

\* C19: such a fetch ends with a file of exactly A + B bytes, which are the
\* source's first A + B bytes in order.
C19_ResumeAppends ==
    ResumedOnce =>
        /\ Len(out_bytes) = reqs[1].wrote + reqs[2].wrote
        /\ out_bytes = SourcePrefix(reqs[1].wrote + reqs[2].wrote)

\* A resumed fetch in which both requests wrote something and the whole
\* source has arrived.
C19_Witness ==
    /\ ResumedOnce
    /\ reqs[1].wrote >= 1
    /\ reqs[2].wrote >= 1
    /\ Len(out_bytes) = source

\* The byte ranges the logged requests have fetched.
RangesFetched ==
    [k \in 1..Len(reqs) |-> <<reqs[k].from, reqs[k].from + reqs[k].wrote - 1>>]

\* The segments of [0, size) for a segment size and a largest number of
\* parts: K = min(parts, ceil(size / seg)) consecutive ranges.
Segments(size, seg, parts) ==
    LET n == (size + seg - 1) \div seg
        K == IF n <= parts THEN n ELSE parts
        len == IF n <= parts THEN seg ELSE (size + K - 1) \div K
    IN  [i \in 1..K |-> <<(i - 1) * len,
                          (IF i * len <= size THEN i * len ELSE size) - 1>>]

\* C20: a fetch of a source with known size and range support, into a new
\* file and with no failure, fetches the segments of [0, size): for chunks
\* of 4 MiB, segment size 8 MiB = 2 chunks and at most 6 parts, a source of
\* 20 MiB = 5 chunks is fetched as <<0,1>>, <<2,3>>, <<4,4>>.
C20_SegmentsCover ==
    (dpc = "returned" /\ fresh /\ total_size > 0 /\ ranged /\ attempt = 0) =>
        RangesFetched = Segments(total_size, 2, 6)

\* C21: no two units in flight use the same local file path.
C21_ExclusivePaths ==
    \A u, v \in InFlight :
        (u # v /\ path[u] # NoPath) => path[u] # path[v]

\* C22: sanitize_filename applied to its own result changes nothing.
C22_SanitizeIdempotent ==
    san_pc = 1 => sanitize_filename(san_out) = san_out

\* C23: an index once in the exhaustion set stays in it, and at every moment
\* exhausted_indices() lists exactly the flagged indices, in ascending order
\* and without duplicates.
C23_ExhaustedOnlyGrows ==
    /\ [][_exhausted \subseteq _exhausted']_vars
    /\ [](LET listed == exhausted_indices
          IN  /\ {listed[k] : k \in 1..Len(listed)} = _exhausted
              /\ \A j, k \in 1..Len(listed) : j < k => listed[j] < listed[k])

\* Both indices are flagged, one by a probe inside pick() and one by a
\* mark_exhausted() that has just returned.
C23_Witness ==
    /\ exhausted_indices = <<0, 1>>
    /\ \E u \in Units : pc[u] = "marked"
    /\ sawExhausted

\* C24: on a fair event loop with a network that answers, every queued
\* transfer unit is admitted and every admitted unit ends.
C24_EveryUnitEnds ==
    \A u \in Units :
        /\ (pc[u] = "queued") ~> (u \in InFlight)
        /\ (u \in InFlight) ~> (pc[u] = "done")

\* A unit waits at the gate while the other one holds the only permit and
\* the pool lock.
C24_Witness ==
    /\ capacity = 1
    /\ \E u, v \in Units :
          /\ pc[u] = "queued"
          /\ v \in InFlight
          /\ _lock = v

\* C25: upload_file is called only with the path the fetch returned, never
\* with a missing one (a step that leaves "picked" or "guest_retry" is the
\* call of _upload_once).
C25_UploadOnlyWithPath ==
    [][\A u \in Units :
          (/\ kind[u] \in {"http", "tg"}
           /\ pc[u] \in {"picked", "guest_retry"}
           /\ pc'[u] # pc[u]) => path[u] # NoPath]_vars

\* The step of transfer unit u leaves the control point `at`.
Leaves(u, at) ==
    kind[u] \in {"http", "tg"} /\ pc[u] \in at /\ pc'[u] # pc[u]

\* C26: a unit's upload loop enters pick() in at most N iterations; it ends
\* all-exhausted only out of the N-th iteration, each having come back with
\* neither link nor error flag; an upload attempt that raises, or comes back
\* to the handler with the error flag, ends the unit as "Upload failed"; and
\* a unit's classification, once given, does not change.
C26_UploadLoopVerdicts ==
    [][\A u \in Units :
          /\ Leaves(u, {"pick_lock"}) => iter[u] < ntokens
          /\ EndsAllExhausted(u) => (pc[u] = "marked" /\ iter[u] + 1 = ntokens)
          /\ (Leaves(u, {"picked", "guest_retry"}) /\ pc'[u] = "done")
                => outcome'[u] = "upload_failed"
          /\ (Leaves(u, {"responded"}) /\ ~GuestRetryWanted(u) /\ result[u].error)
                => outcome'[u] = "upload_failed"
          /\ outcome[u] # "none" => outcome'[u] = outcome[u]]_vars

\* The latest request was made with bytes on disk (a file that was there
\* before the call, or what an interrupted first attempt wrote) and was
\* answered with the full body, status 200.
FullBodyOverBytes ==
    \/ nreqs = 1 /\ ~fresh /\ reqs[1].status = "200"
    \/ nreqs = 2 /\ fresh /\ reqs[1].wrote > 0 /\ reqs[2].status = "200"

\* C27: after a 200 answered to an attempt that began with bytes on disk, the
\* file holds what has arrived of that body and nothing else, from offset 0:
\* once the body is through, the file is the body exactly once.
C27_FullBodyRewrites ==
    FullBodyOverBytes =>
        /\ out_bytes = SourcePrefix(pos)
        /\ downloaded = pos

\* An interrupted first attempt left bytes, the retry was answered 200, its
\* body came through and the call has returned with the source's bytes.
C27_Witness ==
    /\ FullBodyOverBytes
    /\ nreqs = 2
    /\ dpc = "returned"
    /\ pos = source
    /\ out_bytes = SourcePrefix(source)

\* C28: in http_download, after a 200 (full body) answered to a request that
\* carried a Range header, the file holds what has arrived of that body and
\* nothing else: the earlier bytes are gone and the body is there once.
C28_HttpFullBodyRewrites ==
    (hd_status = "200" /\ hd_from > 0 /\ hd_pc \in {"stream", "loop", "returned"}) =>
        hd_tmp = SourcePrefix(hd_pos)

\* C29: smart_download returns only with a file that has reached the length
\* of the source, whether the probe found the size or not; a body that ended
\* early is never returned as the finished file.
C29_CompleteByLength ==
    dpc = "returned" => Len(out_bytes) >= source

\* C30: during one _upload_once call every percentage the chunk callback
\* shows is at most 99.9, and the "100%" text is emitted only once the
\* remote's response has been received.
C30_HundredOnlyAfterResponse ==
    /\ up_pct <= PctCap
    /\ up_hundred => up_pc \in {"responded", "returned"}

\* The callback has shown the capped percentage for the last chunk of the
\* file, and the "100%" text has followed the response.
C30_Witness ==
    /\ file_size > 0
    /\ up_sent >= file_size
    /\ up_pct = PctCap
    /\ up_hundred
    /\ up_pc = "returned"

\* C31: a unit ends with the success status only on an upload result that
\* carries no error flag, link or no link.
C31_SuccessOnlyWithoutError ==
    [][\A u \in Units :
          (outcome[u] = "none" /\ outcome'[u] = "success") => ~result[u].error]_vars

\* C32: the cursor is always in [0, N); a pick() call makes at most N probes
\* and is over once the N-th has answered; the index it returns is in [0, N).
C32_PickBounded ==
    /\ _idx \in 0..(ntokens - 1)
    /\ \A u \in Units :
          /\ Len(probed[u]) <= ntokens
          /\ pc[u] = "pick_probe" => Len(probed[u]) < ntokens
          /\ pc[u] = "picked" => ret[u] \in 0..(ntokens - 1)

\* A pick() on two tokens has returned after two probes that both reported
\* exhausted.
C32_Witness ==
    /\ ntokens = 2
    /\ \E u \in Units :
          /\ pc[u] = "picked"
          /\ Len(probed[u]) = 2
          /\ \A k \in 1..2 : probed[u][k][2] = "True"

\* C33: when a probe raises inside pick(), the lock is free afterwards, the
\* failing candidate is neither flagged nor passed over, and the exhaustion
\* set and the cursor show exactly the candidates the call had found
\* exhausted before: they are flagged and the cursor stands behind them, on
\* the candidate whose probe failed. A call that has raised never holds the
\* lock.
C33_RaiseReleasesLock ==
    /\ [][\A u \in Units :
            (pc[u] = "pick_probe" /\ pc'[u] = "pick_raised") =>
                /\ _lock' = NoUnit
                /\ _exhausted' = _exhausted
                /\ ProbedExhausted(probed'[u]) \subseteq _exhausted'
                /\ Len(probed'[u]) = Cardinality(ProbedExhausted(probed'[u])) + 1
                /\ _idx' = probed'[u][Len(probed'[u])][1]
                /\ _idx' = (probed'[u][1][1] + Len(probed'[u]) - 1) % ntokens]_vars
    /\ [](\A u \in Units : pc[u] = "pick_raised" => _lock # u)

\* A pick() has raised on its second probe after flagging the first
\* candidate, and another task's pick() has taken the lock since.
C33_Witness ==
    \E u, v \in Units :
        /\ pc[u] = "pick_raised"
        /\ Len(probed[u]) = 2
        /\ probed[u][1][2] = "True"
        /\ pc[v] = "pick_probe"
        /\ _lock = v

\* The index a pick() call returns for its probe log: the candidate whose
\* probe did not report exhausted, or, after N exhausted probes, the one
\* behind the last.
Chosen(log) ==
    LET last == log[Len(log)]
    IN  IF last[2] = "True" THEN (last[1] + 1) % ntokens ELSE last[1]

\* C34: mark_exhausted changes the exhaustion set and nothing else of the
\* pool; and what a pick() returns is fixed by the cursor it started from
\* and by its probes' results alone: the candidates follow the cursor, all
\* but the last probed exhausted, and the index is the one these give,
\* whatever the exhaustion set holds.
C34_MarkOnlyFlags ==
    [][\A u \in Units :
          /\ (pc[u] = "mark_lock" /\ pc'[u] = "marked") =>
                 /\ _idx' = _idx
                 /\ ntokens' = ntokens
                 /\ _lock' = _lock
                 /\ _exhausted' = _exhausted \cup {arg[u]}
          /\ (pc[u] = "pick_probe" /\ pc'[u] = "picked") =>
                 LET log == probed'[u]
                 IN  /\ \A k \in 1..Len(log) :
                            log[k][1] = (log[1][1] + k - 1) % ntokens
                     /\ \A k \in 1..(Len(log) - 1) : log[k][2] = "True"
                     /\ log[Len(log)][2] = "True" => Len(log) = ntokens
                     /\ ret'[u] = Chosen(log)]_vars

\* Index 0 was flagged by mark_exhausted alone, the other index is not
\* flagged, and a pick() whose only probe found index 0 usable has returned
\* it.
C34_Witness ==
    /\ ntokens = 2
    /\ _exhausted = {0}
    /\ ~sawExhausted
    /\ \E u \in Units :
          /\ pc[u] = "picked"
          /\ ret[u] = 0
          /\ Len(probed[u]) = 1
          /\ probed[u][1][2] \in {"False", "None"}

\* C35: any two edits a status object has passed on are at least one
\* interval apart, whichever tasks called edit(); each of them was passed on
\* once, at least an interval after the one before; and an edit that was not
\* passed on leaves nothing behind: no edit_text call and no waiting task.
C35_ThrottleSpacing ==
    /\ \A j, k \in 1..Len(th_accepted) :
          j < k => th_accepted[k] - th_accepted[j] >= INTERVAL
    /\ th_sends = Len(th_accepted)
    /\ th_sends <= th_calls
    /\ Cardinality({t \in Tasks : th_pc[t] = "sending"}) <= th_sends
    /\ th_accepted # <<>> => th_last = th_accepted[Len(th_accepted)]

\* Two tasks are both awaiting edit_text, their edits passed on an interval
\* or more apart, and an edit in between was discarded.
C35_Witness ==
    /\ \A t \in Tasks : th_pc[t] = "sending"
    /\ Len(th_accepted) = 2
    /\ th_calls = 3

\* A step in which u's pick() call returns an index.
Returned(u) == pc[u] = "pick_probe" /\ pc'[u] = "picked"

\* The status of the k-th probe of a log, and the index it probed.
StatusAt(log, k) == log[k][2]
IdxAt(log, k) == log[k][1]
AllExhaustedLog(log) == \A k \in 1..Len(log) : StatusAt(log, k) = "True"

\* Every probe of the log lies directly behind cursor c in rotation order:
\* the probes are the Len(log) positions that precede c, in order.
BehindCursor(log, c) ==
    /\ Len(log) <= ntokens
    /\ \A k \in 1..Len(log) :
          IdxAt(log, k) = (c + ntokens * 2 - (Len(log) - k + 1)) % ntokens

\* C4: as long as no probe has reported exhausted, the k-th pick() call
\* that returns (k = 0, 1, 2, ...) returns index k mod N, whichever task
\* issued it. (A call whose probe raises returns nothing and is not counted.)
C4_RoundRobinOrder ==
    [][\A u \in Units :
          (Returned(u) /\ ~sawExhausted') => ret'[u] = npicked % ntokens]_vars

\* C4 witness: two tokens, three returned picks without any exhausted probe,
\* the third one having wrapped around to index 0, with a second task in the
\* pool's calls at the same time.
C4_Witness ==
    /\ ntokens = 2 /\ npicked = 3 /\ ~sawExhausted
    /\ \E u, v \in Units :
          u # v /\ pc[u] = "picked" /\ ret[u] = 0 /\ pc[v] # "idle"

\* C5 (as claimed): after every pick() that returns i the cursor is
\* (i + 1) mod N and every probed credential lies behind the cursor.
C5_Original ==
    [][\A u \in Units :
          Returned(u) =>
             /\ _idx' = (ret'[u] + 1) % ntokens
             /\ BehindCursor(probed'[u], _idx')]_vars

\* C5 (amended): after a pick() that returns i because i's probe was healthy
\* or unknown the cursor is (i + 1) mod N; after a pick() whose N probes all
\* reported exhausted the cursor is i itself, the index returned; in both
\* cases every credential probed in the call lies directly behind the cursor.
C5_CursorAfterPick ==
    [][\A u \in Units :
          Returned(u) =>
             /\ IF AllExhaustedLog(probed'[u])
                THEN Len(probed'[u]) = ntokens /\ _idx' = ret'[u]
                ELSE _idx' = (ret'[u] + 1) % ntokens
             /\ BehindCursor(probed'[u], _idx')]_vars

\* C5 witness: a pick() that skipped an exhausted candidate and accepted the
\* next one, whose probe was inconclusive.
C5_Witness ==
    \E u \in Units :
        /\ pc[u] = "picked" /\ Len(probed[u]) = 2
        /\ StatusAt(probed[u], 1) = "True" /\ StatusAt(probed[u], 2) = "None"
        /\ ret[u] = IdxAt(probed[u], 2)

\* C6 (as claimed): a pick() whose last probe failed or was inconclusive
\* (anything but a confirmed exhaustion) has returned the probed candidate;
\* a failing check never makes pick() fail.
C6_FailedCheckAccepts ==
    \A u \in Units :
        (pc[u] \in {"picked", "pick_raised"} /\ probed[u] # <<>>
            /\ StatusAt(probed[u], Len(probed[u])) # "True")
        => (pc[u] = "picked" /\ ret[u] = IdxAt(probed[u], Len(probed[u])))

\* C7: when all N probes of one pick() call report exhausted, the call
\* returns (it does not raise) the index the cursor points at, within 0..N-1.
C7_AllExhaustedReturnsCursor ==
    [][\A u \in Units :
          (pc[u] = "pick_probe" /\ Len(probed'[u]) = ntokens
              /\ AllExhaustedLog(probed'[u]))
          => (pc'[u] = "picked" /\ ret'[u] = _idx' /\ ret'[u] \in Indices)]_vars

\* C7 witness: a returned pick() of a two-token pool whose two probes both
\* reported exhausted.
C7_Witness ==
    \E u \in Units :
        /\ ntokens = 2 /\ pc[u] = "picked" /\ Len(probed[u]) = 2
        /\ AllExhaustedLog(probed[u]) /\ ret[u] \in Indices

\* C8: a flagged credential is returned again within N further returned
\* picks: for every flagged index, fewer than N pick() calls have returned
\* another index since it was last flagged (by mark_exhausted or by a
\* confirmed-exhausted probe) or returned.
C8_FlaggedComesBack ==
    \A i \in _exhausted : miss[i] < ntokens

\* C8 witness: no probe ever reported exhausted, index 0 of a two-token pool
\* was flagged by mark_exhausted, and after a pick of index 1 a pick() has
\* just returned index 0 again.
C8_Witness ==
    /\ ntokens = 2 /\ ~sawExhausted /\ npicked = 3 /\ exhausted_indices = <<0>>
    /\ \E u \in Units : pc[u] = "picked" /\ ret[u] = 0 /\ miss[1] = 1

\* C9: fresh pool of 2 tokens, token 0 probes exhausted and token 1 healthy:
\* the first pick() returns 1, index 0 is flagged, the cursor is back at 0.
C9_TwoTokenScenario ==
    \A u \in Units :
        (/\ ntokens = 2 /\ ncalls = 1 /\ pc[u] = "picked"
         /\ probed[u] = << <<0, "True">>, <<1, "False">> >>)
        => (ret[u] = 1 /\ 0 \in _exhausted /\ _idx = 0)

\* C9 witness: the scenario's pick() has returned.
C9_Witness ==
    \E u \in Units :
        /\ ntokens = 2 /\ ncalls = 1 /\ pc[u] = "picked" /\ ret[u] = 1
        /\ probed[u] = << <<0, "True">>, <<1, "False">> >>

\* The tasks inside pick() (between taking the lock and leaving it).
InPick == {u \in Units : pc[u] = "pick_probe"}

\* C10: at most one task is inside pick() at a time and it holds the lock;
\* a mark_exhausted() takes effect only while no pick() is in progress.
C10_PickMutualExclusion ==
    [][/\ Cardinality(InPick') <= 1
       /\ \A u \in InPick' : _lock' = u
       /\ \A u \in Units :
             (pc[u] = "mark_lock" /\ pc'[u] = "marked") => InPick = {}]_vars

\* C10 witness: one task is in the middle of a pick() (a probe has already
\* been skipped) while another one waits to call mark_exhausted.
C10_Witness ==
    \E u, v \in Units :
        /\ u # v /\ pc[u] = "pick_probe" /\ tried[u] >= 1
        /\ pc[v] = "mark_lock"

====
